---- MODULE Spec2Model ----
(***************************************************************************)
(* Model of the time-window computation of wsgi/modules/metadata.py:       *)
(* WI_Module.timewindows (the dispatcher), WI_Module.__timewindows_tw      *)
(* (explicit window), WI_Module.__timewindows_ev (event-relative window)   *)
(* and WI_Module.__isphase.                                                *)
(*                                                                         *)
(* Times are whole seconds, offsets whole minutes, coordinates whole       *)
(* degrees on the equator.  A phase name is the sequence of its characters *)
(* so that str.startswith is computed, not assumed.                        *)
(***************************************************************************)
EXTENDS Integers, Sequences, FiniteSets, TLC

VARIABLES
    params,       \* the names of the parameters of the HTTP request
    max_lines,    \* self.max_lines
    pc,           \* position of the request in timewindows()
    mode,         \* local "mode" of timewindows(): "tw", "ev" or "" (not chosen)
    streams,      \* parsed parameter "streams"
    start_time,   \* parsed parameter "start"  (explicit mode)
    end_time,     \* parsed parameter "end"    (explicit mode)
    events,       \* parsed parameter "events" (event mode)
    startphase, startoffset, endphase, endoffset,
    ei,           \* position of the loop "for ev in events" (1-based)
    ci,           \* position of the loop "for nscl in streams" (1-based)
    result,       \* local list "result" of the running resolver
    origin,       \* history: for each entry of result, the pair it came from
    logged,       \* the kinds of logs.error() calls made so far
    err,          \* message of the WIClientError that left timewindows(), or ""
    returned      \* the list handed to json.dumps, <<>> until then

vars == <<params, max_lines, pc, mode, streams, start_time, end_time, events,
          startphase, startoffset, endphase, endoffset, ei, ci, result, origin,
          logged, err, returned>>

----------------------------------------------------------------------------
(* Bounds of the model *)

MaxLines == 2
MaxStreams == 2
MaxEvents == 2

(* Program constants *)

\* the threshold taken one degree too high ("delta > 120" for "delta >= 120")
delta_threshold_high == 120 + 1

delta_threshold == 120

----------------------------------------------------------------------------
(* Strings as character sequences *)

startswith(s, prefix) ==
    /\ Len(s) >= Len(prefix)
    /\ SubSeq(s, 1, Len(prefix)) = prefix

n_P     == <<"P">>
n_Pg    == <<"P", "g">>
n_Pb    == <<"P", "b">>
n_Pn    == <<"P", "n">>
n_Pdif  == <<"P", "d", "i", "f">>
n_Pdiff == <<"P", "d", "i", "f", "f">>
n_S     == <<"S">>
n_Sg    == <<"S", "g">>
n_Sb    == <<"S", "b">>
n_Sn    == <<"S", "n">>
n_Sdif  == <<"S", "d", "i", "f">>
n_Sdiff == <<"S", "d", "i", "f", "f">>
n_SKS   == <<"S", "K", "S">>
n_PKP   == <<"P", "K", "P">>
n_PKiKP == <<"P", "K", "i", "K", "P">>
n_PcP   == <<"P", "c", "P">>
n_ScS   == <<"S", "c", "S">>
n_SKSac == <<"S", "K", "S", "a", "c">>
n_PKPdf == <<"P", "K", "P", "d", "f">>

----------------------------------------------------------------------------
(* The request parameters *)

tw_params == {"start", "end"}
ev_params == {"events", "startphase", "startoffset", "endphase", "endoffset"}
ParamNames == {"streams"} \cup tw_params \cup ev_params

----------------------------------------------------------------------------
(* Values a request can carry *)

Num(n) == [t |-> "num", v |-> n]      \* a JSON number
Str    == [t |-> "str", v |-> 0]      \* a JSON string that is not a number

\* [lat, lon, depth, time]
EvA     == <<Num(0), Num(0), Num(10), Num(1000)>>
EvB     == <<Num(0), Num(239), Num(10), Num(1010)>>
EvShort == <<Num(0), Num(0), Num(10)>>
EvStr   == <<Num(0), Str, Num(10), Num(1000)>>
EventUniverse == {EvA, EvB, EvShort, EvStr}

\* [net, sta, cha, loc]
KA   == <<"GE", "APE", "BHZ", "">>
KB   == <<"GE", "KBS", "BHZ", "00">>
KU   == <<"XX", "NONE", "BHZ", "">>
KBad == <<"GE", "APE", "BHZ">>
StreamUniverse == {KA, KB, KU, KBad}

RECURSIVE SeqsUpTo(_, _)
SeqsUpTo(S, n) ==
    IF n = 0 THEN {<<>>}
    ELSE LET shorter == SeqsUpTo(S, n - 1)
         IN  shorter \cup {Append(q, x) : q \in {r \in shorter : Len(r) = n - 1}, x \in S}

StreamLists == SeqsUpTo(StreamUniverse, MaxStreams)
EventLists  == SeqsUpTo(EventUniverse, MaxEvents)
Phases      == {"P", "S", "X"}
StartOffsets == {-1, 3}
EndOffsets   == {2}
StartTimes   == {900, 1150}
EndTimes     == {1200}

----------------------------------------------------------------------------
(* Collaborators: the inventory cache, the distance and the travel times *)

None == [none |-> TRUE]

\* the streams of the inventory: coordinates, epoch and data rate
Inventory ==
    (KA :> [latitude |-> 0, longitude |-> 119, elevation |-> 0,
            from |-> 0, to |-> 1100, rate |-> 1]) @@
    (KB :> [latitude |-> 0, longitude |-> 89, elevation |-> 100,
            from |-> 0, to |-> 5000, rate |-> 2])

\* self.ic.getStreamInfo(start_time, end_time, net, sta, cha, loc)
getStreamInfo(st, en, nscl) ==
    IF nscl \in DOMAIN Inventory /\ st <= Inventory[nscl].to /\ en >= Inventory[nscl].from
    THEN [none |-> FALSE,
          latitude |-> Inventory[nscl].latitude,
          longitude |-> Inventory[nscl].longitude,
          elevation |-> Inventory[nscl].elevation,
          size |-> IF en > st THEN (en - st) * Inventory[nscl].rate ELSE 0]
    ELSE None

\* Math.delazi(lat1, lon1, lat2, lon2)[0] for two points of the equator
delazi(lat1, lon1, lat2, lon2) ==
    LET d == IF lon1 >= lon2 THEN lon1 - lon2 ELSE lon2 - lon1
    IN  IF d > 180 THEN 360 - d ELSE d

Arr(name, secs) == [phase |-> name, time |-> secs]

Raise == <<[phase |-> <<"!">>, time |-> 0 - 1]>>

\* self.ttt.compute(ev_lat, ev_lon, ev_dep, st_lat, st_lon, st_alt):
\* the arrivals in time order, or Raise when the table raises
compute(ev_lat, ev_lon, ev_dep, st_lat, st_lon, st_alt) ==
    CASE ev_lon = 0 /\ st_lon = 119 ->
            << Arr(n_PcP, 15), Arr(n_Pn, 18), Arr(n_P, 20), Arr(n_PKiKP, 30),
               Arr(n_PKP, 32), Arr(n_ScS, 33), Arr(n_SKSac, 40), Arr(n_S, 45) >>
      [] ev_lon = 239 /\ st_lon = 119 ->
            << Arr(n_P, 20), Arr(n_PKPdf, 30), Arr(n_PKiKP, 32), Arr(n_S, 45) >>
      [] ev_lon = 239 /\ st_lon = 89 ->
            << Arr(n_Pdiff, 25), Arr(n_Sdiff, 50) >>
      [] OTHER -> Raise

----------------------------------------------------------------------------
(* Helpers of the resolvers *)

\* float(x) and DateTimeAttr().fromxml(x) succeed on a well-formed value only
numeric(x) == x.t = "num"

\* the try block that unpacks an event: len(ev) == 4 and the four conversions
event_ok(ev) == Len(ev) = 4 /\ \A i \in 1..4 : numeric(ev[i])

\* the try block that unpacks a stream key: len(nscl) == 4 (str() never fails)
stream_ok(nscl) == Len(nscl) = 4

\* off by one: the check lets one entry too many through
over_limit_late(n, limit) == n > limit + 1

\* len(result) > self.max_lines
over_limit(n, limit) == n > limit

\* result.insert(0, ...) for result.append(...)
accumulate_front(res, entry) == <<entry>> \o res

\* result.append(...)
accumulate(res, entry) == Append(res, entry)

\* the entry is built with the end time in both places
tw_entry_end_twice(st, en, nscl, info) ==
    <<en, en, nscl[1], nscl[2], nscl[3], nscl[4], info.size>>

\* the tuple appended by __timewindows_tw
tw_entry(st, en, nscl, info) ==
    <<st, en, nscl[1], nscl[2], nscl[3], nscl[4], info.size>>

\* the two ends are put in order before the entry is built
ev_entry_sorted(st, en, nscl, info) ==
    <<IF st <= en THEN st ELSE en, IF st <= en THEN en ELSE st,
      nscl[1], nscl[2], nscl[3], nscl[4], info.size>>

\* the tuple appended by __timewindows_ev; info is the second lookup
ev_entry(st, en, nscl, info) ==
    <<st, en, nscl[1], nscl[2], nscl[3], nscl[4], info.size>>

\* SKS matched by equality instead of by prefix
isphase_sks_exact(ttphase, phase) ==
    IF phase = "P"
    THEN IF ttphase \in {n_P, n_Pg, n_Pb, n_Pn, n_Pdif, n_Pdiff}
         THEN "true" ELSE "false"
    ELSE IF phase = "S"
    THEN IF ttphase \in {n_S, n_Sg, n_Sb, n_Sn, n_Sdif, n_Sdiff, n_SKS}
         THEN "true" ELSE "false"
    ELSE "raise"

\* __isphase(ttphase, phase): "true", "false", or "raise" (WIClientError)
isphase(ttphase, phase) ==
    IF phase = "P"
    THEN IF ttphase \in {n_P, n_Pg, n_Pb, n_Pn, n_Pdif, n_Pdiff}
         THEN "true" ELSE "false"
    ELSE IF phase = "S"
    THEN IF ttphase \in {n_S, n_Sg, n_Sb, n_Sn, n_Sdif, n_Sdiff}
              \/ startswith(ttphase, n_SKS)
         THEN "true" ELSE "false"
    ELSE "raise"

\* (phase == 'P') and (delta >= delta_threshold)
pkp_branch(phase, delta) == phase = "P" /\ delta >= delta_threshold

\* (phase == 'S') or ((phase == 'P') and (delta < delta_threshold))
family_branch(phase, delta) ==
    phase = "S" \/ (phase = "P" /\ delta < delta_threshold)

\* ev_time + datetime.timedelta(seconds=tt.time+offset*60)
resolved(ev_time, tt, offset) == ev_time + tt.time + offset * 60

Found(t)  == [st |-> "found", time |-> t]
NotFound  == [st |-> "none",  time |-> 0]
Raised    == [st |-> "raise", time |-> 0]

\* one of the two loops "for tt in ttlist", from entry i on
RECURSIVE scan(_, _, _, _, _, _)
scan(ttlist, i, phase, offset, delta, ev_time) ==
    IF i > Len(ttlist) THEN NotFound
    ELSE LET tt == ttlist[i] IN
         IF pkp_branch(phase, delta)
         THEN IF startswith(tt.phase, n_PKP) \/ startswith(tt.phase, n_PKiKP)
              THEN Found(resolved(ev_time, tt, offset))
              ELSE scan(ttlist, i + 1, phase, offset, delta, ev_time)
         ELSE IF family_branch(phase, delta)
         THEN CASE isphase(tt.phase, phase) = "true"  -> Found(resolved(ev_time, tt, offset))
                [] isphase(tt.phase, phase) = "false" ->
                       scan(ttlist, i + 1, phase, offset, delta, ev_time)
                [] OTHER -> Raised
         ELSE Raised

\* the exception of ttt.compute() is not caught
on_compute_exception_raise == "raise"

\* what "except Exception" around ttt.compute() does: "skip" (log, continue)
on_compute_exception == "skip"

\* what "except Exception" around the two loops does: "skip" (log, continue)
on_phase_exception == "skip"

\* the probe at the event time is used again instead of a second lookup
retry_reuses_probe(st, en, nscl, probe) == probe

\* the lookup "retry with actual time window"
retry(st, en, nscl, probe) == getStreamInfo(st, en, nscl)

\* the body of "for nscl in streams" of __timewindows_ev for a valid event and
\* a valid stream key: what it does to result, and what it logs
\*   kind: "skip" (continue), "append", "raise" (an exception leaves the loop)
ev_pair(ev, nscl, sphase, soff, ephase, eoff) ==
    LET ev_lat  == ev[1].v
        ev_lon  == ev[2].v
        ev_dep  == ev[3].v
        ev_time == ev[4].v
        probe   == getStreamInfo(ev_time, ev_time, nscl)
    IN  IF probe.none THEN [kind |-> "skip", logs |-> {}, entry |-> <<>>]
        ELSE
        LET delta  == delazi(ev_lat, ev_lon, probe.latitude, probe.longitude)
            ttlist == compute(ev_lat, ev_lon, ev_dep,
                              probe.latitude, probe.longitude, probe.elevation)
        IN  IF ttlist = Raise
            THEN [kind |-> on_compute_exception, logs |-> {"compute"}, entry |-> <<>>]
            ELSE
            LET s == scan(ttlist, 1, sphase, soff, delta, ev_time)
                e == scan(ttlist, 1, ephase, eoff, delta, ev_time)
            IN  IF s.st = "raise" \/ e.st = "raise"
                THEN [kind |-> on_phase_exception, logs |-> {"phase"}, entry |-> <<>>]
                ELSE
                LET lg == (IF s.st = "none" THEN {"nostart"} ELSE {})
                          \cup (IF e.st = "none" THEN {"noend"} ELSE {})
                IN  IF s.st = "found" /\ e.st = "found"
                    THEN LET info == retry(s.time, e.time, nscl, probe)
                         IN  IF info.none
                             THEN [kind |-> "skip", logs |-> lg, entry |-> <<>>]
                             ELSE [kind |-> "append", logs |-> lg,
                                   entry |-> ev_entry(s.time, e.time, nscl, info)]
                    ELSE [kind |-> "skip", logs |-> lg, entry |-> <<>>]

\* event mode is chosen without checking that start and end are absent
select_mode_lax(ps) ==
    LET tw_params_count == Cardinality(ps \cap tw_params)
        ev_params_count == Cardinality(ps \cap ev_params)
    IN  IF tw_params_count = Cardinality(tw_params) /\ ev_params_count = 0
        THEN "tw"
        ELSE IF ev_params_count = Cardinality(ev_params)
        THEN "ev"
        ELSE ""

\* timewindows(): the choice of mode from the names of the parameters;
\* "" stands for raising "invalid set of parameters"
select_mode(ps) ==
    LET tw_params_count == Cardinality(ps \cap tw_params)
        ev_params_count == Cardinality(ps \cap ev_params)
    IN  IF tw_params_count = Cardinality(tw_params) /\ ev_params_count = 0
        THEN "tw"
        ELSE IF ev_params_count = Cardinality(ev_params) /\ tw_params_count = 0
        THEN "ev"
        ELSE ""

\* the kind of error a WIClientError message stands for
ErrorKind(msg) ==
    IF msg = "" THEN "none"
    ELSE IF msg = "maximum request size exceeded" THEN "RequestTooLarge"
    ELSE "MalformedInput"

----------------------------------------------------------------------------
(* The state machine *)

Init ==
    /\ params \in SUBSET ParamNames
    /\ max_lines \in 0..MaxLines
    /\ pc = "dispatch"
    /\ mode = ""
    /\ streams = <<>>
    /\ start_time = 0
    /\ end_time = 0
    /\ events = <<>>
    /\ startphase = ""
    /\ startoffset = 0
    /\ endphase = ""
    /\ endoffset = 0
    /\ ei = 1
    /\ ci = 1
    /\ result = <<>>
    /\ origin = <<>>
    /\ logged = {}
    /\ err = ""
    /\ returned = <<>>

\* a WIClientError leaves timewindows()
Fail(msg) ==
    /\ pc' = "error"
    /\ err' = msg

\* timewindows(): "missing streams", then the choice of the mode
Dispatch ==
    /\ pc = "dispatch"
    /\ IF "streams" \notin params
       THEN Fail("missing streams") /\ mode' = mode
       ELSE IF select_mode(params) = ""
       THEN Fail("invalid set of parameters") /\ mode' = mode
       ELSE /\ mode' = select_mode(params)
            /\ pc' = "parse"
            /\ err' = err
    /\ UNCHANGED <<params, max_lines, streams, start_time, end_time, events,
                   startphase, startoffset, endphase, endoffset, ei, ci,
                   result, origin, logged, returned>>

\* timewindows(): a parameter does not convert: "invalid <name>"
ParseError ==
    /\ pc = "parse"
    /\ \E name \in params \cap ({"streams"} \cup (IF mode = "tw" THEN tw_params ELSE ev_params)) :
          Fail("invalid parameter")
    /\ UNCHANGED <<params, max_lines, mode, streams, start_time, end_time, events,
                   startphase, startoffset, endphase, endoffset, ei, ci,
                   result, origin, logged, returned>>

\* timewindows(): the parameters of explicit mode convert; __timewindows_tw starts
ParseTw ==
    /\ pc = "parse" /\ mode = "tw"
    /\ streams' \in StreamLists
    /\ start_time' \in StartTimes
    /\ end_time' \in EndTimes
    /\ pc' = "tw_loop"
    /\ ci' = 1
    /\ result' = <<>>
    /\ UNCHANGED <<params, max_lines, mode, events, startphase, startoffset,
                   endphase, endoffset, ei, origin, logged, err, returned>>

\* timewindows(): the parameters of event mode convert; __timewindows_ev starts
ParseEv ==
    /\ pc = "parse" /\ mode = "ev"
    /\ streams' \in StreamLists
    /\ events' \in EventLists
    /\ startphase' \in Phases
    /\ startoffset' \in StartOffsets
    /\ endphase' \in Phases
    /\ endoffset' \in EndOffsets
    /\ pc' = "ev_loop"
    /\ ei' = 1
    /\ result' = <<>>
    /\ UNCHANGED <<params, max_lines, mode, start_time, end_time, ci, origin,
                   logged, err, returned>>

\* __timewindows_tw: one pass of "for nscl in streams"
TwStep ==
    /\ pc = "tw_loop" /\ ci <= Len(streams)
    /\ LET nscl == streams[ci] IN
       IF ~stream_ok(nscl)
       THEN Fail("invalid stream") /\ UNCHANGED <<result, origin, ci>>
       ELSE LET streamInfo == getStreamInfo(start_time, end_time, nscl) IN
            IF streamInfo.none
            THEN /\ ci' = ci + 1
                 /\ UNCHANGED <<result, origin, pc, err>>
            ELSE /\ result' = accumulate(result, tw_entry(start_time, end_time, nscl, streamInfo))
                 /\ origin' = accumulate(origin, [ei |-> 0, ci |-> ci])
                 /\ IF over_limit(Len(result'), max_lines)
                    THEN Fail("maximum request size exceeded") /\ ci' = ci
                    ELSE ci' = ci + 1 /\ UNCHANGED <<pc, err>>
    /\ UNCHANGED <<params, max_lines, mode, streams, start_time, end_time, events,
                   startphase, startoffset, endphase, endoffset, ei, logged, returned>>

\* __timewindows_tw returns, timewindows() serialises the list
TwReturn ==
    /\ pc = "tw_loop" /\ ci > Len(streams)
    /\ returned' = result
    /\ pc' = "done"
    /\ UNCHANGED <<params, max_lines, mode, streams, start_time, end_time, events,
                   startphase, startoffset, endphase, endoffset, ei, ci, result,
                   origin, logged, err>>

\* __timewindows_ev: the head of one pass of "for ev in events"
EvHead ==
    /\ pc = "ev_loop" /\ ei <= Len(events)
    /\ IF ~event_ok(events[ei])
       THEN Fail("invalid event") /\ UNCHANGED <<ei, ci>>
       ELSE IF Len(streams) = 0
       THEN ei' = ei + 1 /\ UNCHANGED <<pc, err, ci>>
       ELSE pc' = "ev_inner" /\ ci' = 1 /\ UNCHANGED <<ei, err>>
    /\ UNCHANGED <<params, max_lines, mode, streams, start_time, end_time, events,
                   startphase, startoffset, endphase, endoffset, result, origin,
                   logged, returned>>

\* the inner loop moves on: next stream, or next event
EvAdvance ==
    IF ci = Len(streams)
    THEN ei' = ei + 1 /\ ci' = 1 /\ pc' = "ev_loop"
    ELSE ci' = ci + 1 /\ ei' = ei /\ pc' = pc

\* __timewindows_ev: one pass of "for nscl in streams"
EvStep ==
    /\ pc = "ev_inner"
    /\ LET nscl == streams[ci] IN
       IF ~stream_ok(nscl)
       THEN Fail("invalid stream") /\ UNCHANGED <<result, origin, logged, ei, ci>>
       ELSE LET out == ev_pair(events[ei], nscl, startphase, startoffset,
                               endphase, endoffset)
            IN  /\ logged' = logged \cup out.logs
                /\ CASE out.kind = "skip" ->
                          EvAdvance /\ UNCHANGED <<result, origin, err>>
                     [] out.kind = "append" ->
                          /\ result' = accumulate(result, out.entry)
                          /\ origin' = accumulate(origin, [ei |-> ei, ci |-> ci])
                          /\ IF over_limit(Len(result'), max_lines)
                             THEN Fail("maximum request size exceeded")
                                  /\ UNCHANGED <<ei, ci>>
                             ELSE EvAdvance /\ err' = err
                     [] OTHER ->
                          Fail("exception") /\ UNCHANGED <<result, origin, ei, ci>>
    /\ UNCHANGED <<params, max_lines, mode, streams, start_time, end_time, events,
                   startphase, startoffset, endphase, endoffset, returned>>

\* __timewindows_ev returns, timewindows() serialises the list
EvReturn ==
    /\ pc = "ev_loop" /\ ei > Len(events)
    /\ returned' = result
    /\ pc' = "done"
    /\ UNCHANGED <<params, max_lines, mode, streams, start_time, end_time, events,
                   startphase, startoffset, endphase, endoffset, ei, ci, result,
                   origin, logged, err>>

Next ==
    \/ Dispatch
    \/ ParseError
    \/ ParseTw
    \/ ParseEv
    \/ TwStep
    \/ TwReturn
    \/ EvHead
    \/ EvStep
    \/ EvReturn

Spec == Init /\ [][Next]_vars

----------------------------------------------------------------------------
(* Vocabulary of the properties *)

Terminated == pc \in {"done", "error"}

\* the resolver of event mode has been entered
InEv ==
    /\ mode = "ev"
    /\ pc \in {"ev_loop", "ev_inner", "done"} \/ (pc = "error" /\ err # "invalid parameter")

\* the resolver of explicit mode has been entered
InTw ==
    /\ mode = "tw"
    /\ pc \in {"tw_loop", "done"} \/ (pc = "error" /\ err # "invalid parameter")

\* the event and the stream key the k-th entry of result came from
EvOf(k)  == events[origin[k].ei]
KeyOf(k) == streams[origin[k].ci]

\* distance and arrivals of a pair (event, known stream)
DeltaOf(ev, nscl) ==
    delazi(ev[1].v, ev[2].v, Inventory[nscl].latitude, Inventory[nscl].longitude)
ArrivalsOf(ev, nscl) ==
    compute(ev[1].v, ev[2].v, ev[3].v, Inventory[nscl].latitude,
            Inventory[nscl].longitude, Inventory[nscl].elevation)

PFamily == {n_P, n_Pg, n_Pb, n_Pn, n_Pdif, n_Pdiff}
SFamily == {n_S, n_Sg, n_Sb, n_Sn, n_Sdif, n_Sdiff}
IsCore(name)    == startswith(name, n_PKP) \/ startswith(name, n_PKiKP)
InFamily(name, phase) ==
    \/ phase = "P" /\ name \in PFamily
    \/ phase = "S" /\ (name \in SFamily \/ startswith(name, n_SKS))

\* the positions of the arrivals that the rule for (phase, delta) selects from
Candidates(tts, phase, delta) ==
    {i \in 1..Len(tts) : IF phase = "P" /\ delta >= 120
                         THEN IsCore(tts[i].phase)
                         ELSE InFamily(tts[i].phase, phase)}

\* the first of a non-empty set of positions
First(S) == CHOOSE i \in S : \A j \in S : i <= j

----------------------------------------------------------------------------
(* Properties *)

\* C1: in both resolvers the accumulated list never grows past max_lines in a
\* request that goes on: the append that makes it max_lines + 1 long ends the
\* request with "maximum request size exceeded" (Request-Too-Large), and
\* nothing is returned; a returned list never holds more than max_lines entries.
C1_SizeCap ==
    /\ Len(returned) <= max_lines
    /\ Len(result) > max_lines =>
          /\ Len(result) = max_lines + 1
          /\ pc = "error"
          /\ ErrorKind(err) = "RequestTooLarge"
          /\ returned = <<>>
    /\ ErrorKind(err) = "RequestTooLarge" =>
          /\ Len(result) = max_lines + 1
          /\ pc = "error"
          /\ returned = <<>>

\* the cap is hit by the event resolver, with a limit that is not zero
C1_Witness ==
    /\ InEv /\ pc = "error" /\ ErrorKind(err) = "RequestTooLarge"
    /\ max_lines >= 1 /\ Len(result) = max_lines + 1 /\ returned = <<>>

BadPhase == startphase \notin {"P", "S"} \/ endphase \notin {"P", "S"}

\* C2: in event mode, once the resolver has met a startphase or endphase other
\* than "P" and "S" the request is aborted with a Malformed-Input error and
\* returns nothing.
C2_BadPhaseFatal ==
    (InEv /\ BadPhase /\ "phase" \in logged) =>
        (pc = "error" /\ ErrorKind(err) = "MalformedInput" /\ returned = <<>>)

HasBadKey == \E j \in 1..Len(streams) : ~stream_ok(streams[j])

\* C3: in both modes a request whose channel list holds a key that does not
\* have 4 components ends with a Malformed-Input error and returns nothing,
\* wherever the key stands and whatever the event list is (stated for a
\* positive max_lines, the documented range of the limit).
C3_BadKeyFatal ==
    ((InTw \/ InEv) /\ HasBadKey /\ Terminated /\ max_lines >= 1) =>
        (pc = "error" /\ ErrorKind(err) = "MalformedInput" /\ returned = <<>>)

\* C4: in event mode, with phase "P" requested at a distance of 120 degrees or
\* more, the start (end) time of an emitted window is anchored on the first
\* arrival whose name starts with "PKP" or "PKiKP", whatever precedes it.
C4_CoreAnchor ==
    InEv =>
      \A k \in 1..Len(result) :
        LET ev    == EvOf(k)
            delta == DeltaOf(ev, KeyOf(k))
            tts   == ArrivalsOf(ev, KeyOf(k))
            core  == {i \in 1..Len(tts) : IsCore(tts[i].phase)}
        IN  delta >= 120 =>
              /\ startphase = "P" =>
                    /\ core # {}
                    /\ result[k][1] = ev[4].v + tts[First(core)].time + startoffset * 60
              /\ endphase = "P" =>
                    /\ core # {}
                    /\ result[k][2] = ev[4].v + tts[First(core)].time + endoffset * 60

\* a window at exactly 120 degrees, start on "P", with a "P" arrival ahead of
\* the first PKP arrival
C4_Witness ==
    /\ InEv /\ pc = "done" /\ startphase = "P"
    /\ \E k \in 1..Len(returned) :
          /\ DeltaOf(EvOf(k), KeyOf(k)) = 120
          /\ LET tts == ArrivalsOf(EvOf(k), KeyOf(k))
             IN  \E i, j \in 1..Len(tts) :
                    i < j /\ tts[i].phase = n_P /\ IsCore(tts[j].phase)


\* C5: in event mode, for phase "S" at any distance and for phase "P" below 120
\* degrees, the start (end) time of an emitted window is the origin time of
\* the event + the travel time of the first arrival of the family of
\* startphase (endphase) + startoffset (endoffset) * 60 s; the two ends are
\* resolved each with its own phase and offset.
C5_FamilyAnchor ==
    InEv =>
      \A k \in 1..Len(result) :
        LET ev    == EvOf(k)
            delta == DeltaOf(ev, KeyOf(k))
            tts   == ArrivalsOf(ev, KeyOf(k))
            fam(phase) == {i \in 1..Len(tts) : InFamily(tts[i].phase, phase)}
        IN  /\ (startphase = "S" \/ (startphase = "P" /\ delta < 120)) =>
                 /\ fam(startphase) # {}
                 /\ result[k][1] =
                       ev[4].v + tts[First(fam(startphase))].time + startoffset * 60
            /\ (endphase = "S" \/ (endphase = "P" /\ delta < 120)) =>
                 /\ fam(endphase) # {}
                 /\ result[k][2] =
                       ev[4].v + tts[First(fam(endphase))].time + endoffset * 60

\* a window below 120 degrees from "P" to "S" where "Pn" comes before "P"
\* and an SKS arrival before "S"
C5_Witness ==
    /\ InEv /\ pc = "done" /\ startphase = "P" /\ endphase = "S"
    /\ \E k \in 1..Len(returned) :
          /\ DeltaOf(EvOf(k), KeyOf(k)) < 120
          /\ LET tts == ArrivalsOf(EvOf(k), KeyOf(k))
             IN  /\ \E i, j \in 1..Len(tts) :
                        i < j /\ tts[i].phase = n_Pn /\ tts[j].phase = n_P
                 /\ \E i, j \in 1..Len(tts) :
                        i < j /\ startswith(tts[i].phase, n_SKS) /\ tts[j].phase = n_S

\* C6: in event mode an entry is emitted for a pair only if both ends were
\* resolved and the lookup over the resolved window found the stream; its size
\* is the size of that lookup.
C6_EmittedOnlyIfResolved ==
    InEv =>
      \A k \in 1..Len(result) :
        LET ev    == EvOf(k)
            delta == DeltaOf(ev, KeyOf(k))
            tts   == ArrivalsOf(ev, KeyOf(k))
            info  == getStreamInfo(result[k][1], result[k][2], KeyOf(k))
        IN  /\ tts # Raise
            /\ Candidates(tts, startphase, delta) # {}
            /\ Candidates(tts, endphase, delta) # {}
            /\ ~info.none
            /\ result[k][7] = info.size

\* an emitted entry whose size is not the size of the probe at the event time
C6_Witness ==
    /\ InEv /\ pc = "done"
    /\ \E k \in 1..Len(returned) :
          returned[k][7] # getStreamInfo(EvOf(k)[4].v, EvOf(k)[4].v, KeyOf(k)).size

\* a recoverable condition on the pair (event, stream key): the stream is
\* unknown to the cache, the travel-time table raises, or no arrival matches
\* the start or the end phase
Recoverable(ev, nscl) ==
    \/ getStreamInfo(ev[4].v, ev[4].v, nscl).none
    \/ ArrivalsOf(ev, nscl) = Raise
    \/ Candidates(ArrivalsOf(ev, nscl), startphase, DeltaOf(ev, nscl)) = {}
    \/ Candidates(ArrivalsOf(ev, nscl), endphase, DeltaOf(ev, nscl)) = {}

Solo(i, j) == ev_pair(events[i], streams[j], startphase, startoffset, endphase, endoffset)

\* C7: in event mode no recoverable condition leaves the resolver as an error;
\* the pair it occurs on is skipped, and every pair that yields an entry on its
\* own yields that same entry in the returned list.
C7_RecoverableSkipped ==
    /\ (InEv /\ pc = "error") =>
          err \in {"invalid event", "invalid stream", "maximum request size exceeded"}
    /\ (InEv /\ pc = "done") =>
          \A i \in 1..Len(events), j \in 1..Len(streams) :
             /\ Recoverable(events[i], streams[j]) =>
                   ~ \E k \in 1..Len(origin) : origin[k] = [ei |-> i, ci |-> j]
             /\ Solo(i, j).kind = "append" =>
                   \E k \in 1..Len(returned) :
                      /\ origin[k] = [ei |-> i, ci |-> j]
                      /\ returned[k] = Solo(i, j).entry

\* the table raised for one pair, a stream was unknown for another, and the
\* request still returned an entry
C7_Witness ==
    /\ InEv /\ pc = "done" /\ Len(returned) >= 1 /\ "compute" \in logged
    /\ \E i \in 1..Len(events), j \in 1..Len(streams) :
          getStreamInfo(events[i][4].v, events[i][4].v, streams[j]).none

\* C8: the entries stand in the order of the loops: by position of the event
\* and then of the stream key in event mode, by position of the stream key in
\* explicit mode; each entry carries the key of the pair it came from.
C8_IterationOrder ==
    (InEv \/ InTw) =>
      /\ Len(origin) = Len(result)
      /\ pc = "done" => returned = result
      /\ \A k \in 1..Len(result) :
            <<result[k][3], result[k][4], result[k][5], result[k][6]>> = KeyOf(k)
      /\ \A k, l \in 1..Len(origin) :
            k < l => \/ origin[k].ei < origin[l].ei
                     \/ origin[k].ei = origin[l].ei /\ origin[k].ci < origin[l].ci

\* two entries of two different events are returned, after a skipped pair
C8_Witness ==
    /\ InEv /\ pc = "done" /\ Len(returned) = 2 /\ logged # {}
    /\ origin[1].ei < origin[2].ei


ExplicitSet == {"start", "end"} \subseteq params /\ params \cap ev_params = {}
EventSet    == ev_params \subseteq params /\ params \cap tw_params = {}

\* a resolver has been entered
Invoked == pc \in {"tw_loop", "ev_loop", "ev_inner", "done"} \/ result # <<>>

\* C9 as stated: the dispatcher selects explicit mode exactly when start and
\* end are supplied and none of the five event parameters is, event mode
\* exactly when the five are supplied and neither start nor end is, and
\* rejects every other set of names with Malformed-Input without entering a
\* resolver.
C9_ModeByNames ==
    pc # "dispatch" =>
      /\ mode = "tw" <=> ExplicitSet
      /\ mode = "ev" <=> EventSet
      /\ (~ExplicitSet /\ ~EventSet) =>
            (pc = "error" /\ ErrorKind(err) = "MalformedInput" /\ ~Invoked)

\* C9 amended: the same, for the requests that supply "streams"; a request
\* without "streams" is rejected with Malformed-Input ("missing streams")
\* whatever else it supplies, and no mode is selected.
C9_ModeByNamesGivenStreams ==
    pc # "dispatch" =>
      /\ mode = "tw" <=> ("streams" \in params /\ ExplicitSet)
      /\ mode = "ev" <=> ("streams" \in params /\ EventSet)
      /\ mode \in {"tw", "ev", ""}
      /\ mode = "" =>
            (pc = "error" /\ ErrorKind(err) = "MalformedInput" /\ ~Invoked)
      /\ "streams" \notin params => err = "missing streams"

\* a request with "streams" that mixes the two sets has been rejected
C9_Witness ==
    /\ pc = "error" /\ mode = "" /\ ~Invoked
    /\ err = "invalid set of parameters"
    /\ {"streams", "start", "end", "events"} \subseteq params

AllExist ==
    \A j \in 1..Len(streams) :
        stream_ok(streams[j]) /\ ~getStreamInfo(start_time, end_time, streams[j]).none

\* C10 as stated: in explicit mode, when every key is well formed and exists
\* in the cache over the window, the output has one entry per key, each with
\* the start and end times of the request (stated for a positive max_lines,
\* the documented range of the limit).
C10_OnePerChannel ==
    (InTw /\ Terminated /\ AllExist /\ max_lines >= 1) =>
      /\ pc = "done"
      /\ Len(returned) = Len(streams)
      /\ \A k \in 1..Len(returned) :
            returned[k][1] = start_time /\ returned[k][2] = end_time

\* C10 amended: the same, provided the number of keys does not exceed
\* max_lines; with more keys the request fails with Request-Too-Large.
C10_OnePerChannelWithinCap ==
    (InTw /\ Terminated /\ AllExist) =>
      IF Len(streams) <= max_lines
      THEN /\ pc = "done"
           /\ Len(returned) = Len(streams)
           /\ \A k \in 1..Len(returned) :
                 /\ returned[k][1] = start_time /\ returned[k][2] = end_time
                 /\ <<returned[k][3], returned[k][4], returned[k][5], returned[k][6]>>
                       = streams[k]
      ELSE pc = "error" /\ ErrorKind(err) = "RequestTooLarge" /\ returned = <<>>

\* two existing keys, both returned with the window of the request
C10_Witness ==
    /\ InTw /\ pc = "done" /\ AllExist
    /\ Len(streams) = 2 /\ Len(returned) = 2 /\ start_time < end_time


HasBadEvent == \E i \in 1..Len(events) : ~event_ok(events[i])

\* C11: in event mode an event that does not have 4 components, or has a
\* field that is not numeric, is rejected before any entry is computed for
\* it, and the request then ends with a Malformed-Input error and returns
\* nothing, wherever the event stands in the list (stated for a positive
\* max_lines, the documented range of the limit).
C11_BadEventFatal ==
    /\ InEv => \A k \in 1..Len(origin) : event_ok(EvOf(k))
    /\ (InEv /\ HasBadEvent /\ Terminated /\ max_lines >= 1) =>
          (pc = "error" /\ ErrorKind(err) = "MalformedInput" /\ returned = <<>>)


SamePhase == startphase = endphase /\ startphase \in {"P", "S"}

\* the two ends of the window of pair (i, j), each from its own anchor
StartOf(i, j) ==
    LET tts == ArrivalsOf(events[i], streams[j])
    IN  events[i][4].v
          + tts[First(Candidates(tts, startphase, DeltaOf(events[i], streams[j])))].time
          + startoffset * 60
EndOf(i, j) ==
    LET tts == ArrivalsOf(events[i], streams[j])
    IN  events[i][4].v
          + tts[First(Candidates(tts, endphase, DeltaOf(events[i], streams[j])))].time
          + endoffset * 60

\* C12: in event mode with startphase = endphase, a valid phase, every emitted
\* window has end - start = (endoffset - startoffset) * 60 s, so its start is
\* not after its end exactly when startoffset <= endoffset; the resolver
\* neither drops nor reorders a window whose start is after its end: a pair
\* whose anchors resolve and whose window the cache knows is returned with
\* start and end as computed.
C12_SamePhaseWindow ==
    (InEv /\ SamePhase) =>
      /\ \A k \in 1..Len(result) :
            /\ result[k][2] - result[k][1] = (endoffset - startoffset) * 60
            /\ result[k][1] <= result[k][2] <=> startoffset <= endoffset
      /\ pc = "done" =>
            \A i \in 1..Len(events), j \in 1..Len(streams) :
               (/\ ~Recoverable(events[i], streams[j])
                /\ ~getStreamInfo(StartOf(i, j), EndOf(i, j), streams[j]).none) =>
                  \E k \in 1..Len(returned) :
                     /\ origin[k] = [ei |-> i, ci |-> j]
                     /\ returned[k][1] = StartOf(i, j)
                     /\ returned[k][2] = EndOf(i, j)

\* a returned window of one phase whose start is after its end
C12_Witness ==
    /\ InEv /\ pc = "done" /\ SamePhase /\ startoffset > endoffset
    /\ \E k \in 1..Len(returned) : returned[k][1] > returned[k][2]

====
